---------------------------- MODULE Spec2Model ----------------------------
(***************************************************************************)
(* Model of the conversation simulator of src/app.py: the history          *)
(* formatters, the [END_OF_CALL] detection, run_conversation_simulation    *)
(* and the /simulate batch loop.                                           *)
(*                                                                         *)
(* A text is a sequence of one-character strings.  A provider call is one  *)
(* step whose outcome (a generated text or an exception) is chosen by the  *)
(* environment.                                                            *)
(***************************************************************************)
EXTENDS Naturals, Sequences, FiniteSets

VARIABLES
    gemini_model,          \* module global: TRUE when the Gemini model object exists, FALSE when None
    openai_client,         \* module global: TRUE when the OpenAI client exists, FALSE when None
    caller,                \* who runs the engine: "none", "simulate" (the route) or "direct"
    users,                 \* simulate: the profiles read from the CSV
    idx,                   \* simulate: position of the for loop over users (1-based)
    all_conversations,     \* simulate: results collected so far
    response,              \* simulate: the HTTP response, None until sent
    agent_model,           \* the agent's model id family: "gpt" or "gemini"
    user_profile,          \* run: the profile of the current run
    conversation_history,  \* run: the transcript, a sequence of [role, text]
    pc,                    \* run: position in run_conversation_simulation
    turn,                  \* run: completed iterations of `for _ in range(8)`
    request,               \* run: the request of the latest provider call
    raws,                  \* run: the (stripped) raw outputs of the calls that returned, in order
    userCalls,             \* run: customer calls issued
    agentCalls,            \* run: agent continuation calls issued
    result,                \* run: what run_conversation_simulation returned or raised
    arg,                   \* function harness: the argument of the function under check
    ret                    \* function harness: its result

vars == << gemini_model, openai_client, caller, users, idx, all_conversations,
           response, agent_model, user_profile, conversation_history, pc, turn,
           request, raws, userCalls, agentCalls, result, arg, ret >>

\* Python's None, for the values the model holds as records
NoResult == [kind |-> "none"]
NoRequest == [call |-> "none"]
NoResponse == [status |-> "none"]
NoProfile == [name |-> << >>]

-----------------------------------------------------------------------------
(* Bounds of the model *)

\* pieces concatenated into a generated text of the function harness
MaxPieces == 3
\* turns of a transcript handed to the formatters in the function harness
MaxHist == 2
\* profiles in the CSV of one /simulate request
MaxUsers == 2
\* empty generations the backends produce within one run
MaxEmpty == 1

(* Program constants *)

\* for _ in range(8)
MaxTurns == 8
\* max_tokens=60 of the gpt opener call
OpenerMaxTokens == 60

-----------------------------------------------------------------------------
(* Texts *)

\* the literal "[END_OF_CALL]"
Marker == << "[", "E", "N", "D", "_", "O", "F", "_", "C", "A", "L", "L", "]" >>

\* the literal role "Agent"
AgentRole == << "A", "g", "e", "n", "t" >>

\* characters str.strip() removes
Whitespace == { " ", "\n" }

\* s[i:] of Python, 1-based: the suffix of s from position i
From(s, i) == SubSeq(s, i, Len(s))

\* s.startswith(m)
StartsWith(s, m) == Len(s) >= Len(m) /\ SubSeq(s, 1, Len(m)) = m

\* m in s, for strings
Contains(s, m) == \E i \in 1 .. (Len(s) + 1) : StartsWith(From(s, i), m)

\* s.replace("[END_OF_CALL]", ""): one left-to-right pass over non-overlapping occurrences
RECURSIVE ReplaceMarker(_)
ReplaceMarker(s) ==
    IF s = << >> THEN << >>
    ELSE IF StartsWith(s, Marker) THEN ReplaceMarker(From(s, Len(Marker) + 1))
    ELSE << Head(s) >> \o ReplaceMarker(Tail(s))

RECURSIVE LStrip(_)
LStrip(s) == IF s # << >> /\ Head(s) \in Whitespace THEN LStrip(Tail(s)) ELSE s

RECURSIVE RStrip(_)
RStrip(s) ==
    IF s # << >> /\ s[Len(s)] \in Whitespace THEN RStrip(SubSeq(s, 1, Len(s) - 1)) ELSE s

\* s.strip()
Strip(s) == RStrip(LStrip(s))

\* the concatenation of a sequence of texts
RECURSIVE Concat(_)
Concat(ss) == IF ss = << >> THEN << >> ELSE Head(ss) \o Concat(Tail(ss))

\* "\n".join(lines)
RECURSIVE JoinLines(_)
JoinLines(lines) ==
    IF lines = << >> THEN << >>
    ELSE IF Len(lines) = 1 THEN lines[1]
    ELSE lines[1] \o << "\n" >> \o JoinLines(Tail(lines))

-----------------------------------------------------------------------------
(* Helper functions for formatting conversation history *)

\* format_history_for_gemini with the join replaced by a join on a blank
FormatGeminiJoinBlank(history) ==
    Concat([i \in 1 .. Len(history) |->
              (IF i = 1 THEN << >> ELSE << " " >>)
              \o history[i].role \o << ":", " " >> \o history[i].text])

\* format_history_for_gemini without the latest turn
FormatGeminiWithoutLast(history) ==
    JoinLines([i \in 1 .. (Len(history) - 1) |->
                 history[i].role \o << ":", " " >> \o history[i].text])

format_history_for_gemini(history) ==
    JoinLines([i \in 1 .. Len(history) |->
                 history[i].role \o << ":", " " >> \o history[i].text])

\* format_history_for_openai mapping every turn to "user"
FormatOpenaiAllUser(system_prompt, history) ==
    << [role |-> "system", content |-> system_prompt] >>
    \o [i \in 1 .. Len(history) |-> [role |-> "user", content |-> history[i].text]]

format_history_for_openai(system_prompt, history) ==
    << [role |-> "system", content |-> system_prompt] >>
    \o [i \in 1 .. Len(history) |->
          [role    |-> IF history[i].role = AgentRole THEN "assistant" ELSE "user",
           content |-> history[i].text]]

-----------------------------------------------------------------------------
(* The end signal: app.py cleans the raw response and checks for the marker *)

\* the detection with the check made on the cleaned text instead of the raw one
DetectOnCleaned(raw) ==
    [cleanedText |-> Strip(ReplaceMarker(raw)),
     shouldEnd   |-> Contains(Strip(ReplaceMarker(raw)), Marker)]

DetectEnd(raw) ==
    [cleanedText |-> Strip(ReplaceMarker(raw)),
     shouldEnd   |-> Contains(raw, Marker)]

-----------------------------------------------------------------------------
(* Provider backends *)

\* final_agent_prompt: the text of the agent's system prompt
AgentPrompt == << "P" >>

Turn(role, text) == [role |-> role, text |-> text]

\* what one provider call can do: generate a text, fail to be reached (or time
\* out), or answer without any text
Generated(t) == [kind |-> "text", text |-> t]
Unreachable == [kind |-> "unreachable"]
NoText == [kind |-> "no_text"]

\* the exception a call on `backend` raises for a failed outcome: the SDK's own
\* error when unreachable; for an answer without text, `.strip()` on a None
\* content (openai) or the `.text` accessor's error (gemini)
ProviderException(backend, o) ==
    IF o.kind = "unreachable"
    THEN [type |-> "APIError", msg |-> "Connection error."]
    ELSE IF backend = "openai"
    THEN [type |-> "AttributeError", msg |-> "'NoneType' object has no attribute 'strip'"]
    ELSE [type |-> "ValueError", msg |-> "response.text requires a valid Part"]

OpenAINotInitialized == [type |-> "ValueError", msg |-> "OpenAI client not initialized."]
GeminiNotInitialized == [type |-> "ValueError", msg |-> "Gemini model not initialized."]
\* gemini_model.generate_content evaluated on None
NoneHasNoGenerateContent ==
    [type |-> "AttributeError",
     msg  |-> "'NoneType' object has no attribute 'generate_content'"]

\* agent_model.startswith('gpt')
IsGpt(model) == model = "gpt"

-----------------------------------------------------------------------------
(* run_conversation_simulation *)

Running == { "opener", "user", "agent" }

\* number of turns of the transcript whose text is empty
EmptyTurns(history) == Cardinality({ i \in 1 .. Len(history) : history[i].text = << >> })

\* the bound on empty generations
MayGenerate(o) ==
    o.kind = "text" /\ Strip(o.text) = << >>
        => EmptyTurns(conversation_history) < MaxEmpty

\* the loop with one iteration more than range(8)
LoopDoneOffByOne(t) == t >= MaxTurns + 1

\* the loop stopping one iteration short of range(8)
LoopDoneEarly(t) == t + 1 >= MaxTurns

\* for _ in range(8): the loop is exhausted after t completed iterations
LoopDone(t) == t >= MaxTurns

\* the agent's Turn stored under the customer's name
AgentTurnUnderUserName(text) == Turn(user_profile.name, text)

\* the agent's Turn with its text scanned for the marker once more
AgentTurnCleaned(text) == Turn(AgentRole, Strip(ReplaceMarker(text)))

\* agent_turn = {"role": "Agent", "text": ...}
agent_turn(text) == Turn(AgentRole, text)

\* the customer's Turn stored under the role "Agent"
UserTurnUnderAgentRole(text) == Turn(AgentRole, text)

\* user_turn = {"role": user_profile['name'], "text": user_text}
user_turn(text) == Turn(user_profile.name, text)

\* entry of run_conversation_simulation: conversation_history = []
BeginRun(profile) ==
    /\ user_profile' = profile
    /\ conversation_history' = << >>
    /\ pc' = "opener"
    /\ turn' = 0
    /\ request' = NoRequest
    /\ raws' = << >>
    /\ userCalls' = 0
    /\ agentCalls' = 0
    /\ result' = NoResult

\* the exception swallowed and the transcript so far returned
RaiseSwallowed(exc) ==
    /\ pc' = "returned"
    /\ result' = [kind  |-> "return",
                  value |-> [user_name |-> user_profile.name,
                             transcript |-> conversation_history]]

\* the failed call issued again instead of the exception leaving the run
RaiseRetried(exc) == UNCHANGED << pc, result >>

\* an exception leaves run_conversation_simulation: nothing catches it there
Raise(exc) ==
    /\ pc' = "raised"
    /\ result' = [kind |-> "raise", exc |-> exc]

\* return {"user_name": ..., "transcript": conversation_history}
Return(history) ==
    /\ pc' = "returned"
    /\ result' = [kind  |-> "return",
                  value |-> [user_name |-> user_profile.name, transcript |-> history]]

\* 1. Agent starts the conversation
Opener(o) ==
    /\ pc = "opener"
    /\ MayGenerate(o)
    /\ IF IsGpt(agent_model) /\ ~openai_client
       THEN Raise(OpenAINotInitialized)
            /\ UNCHANGED << conversation_history, request, raws >>
       ELSE IF ~IsGpt(agent_model) /\ ~gemini_model
       THEN Raise(GeminiNotInitialized)
            /\ UNCHANGED << conversation_history, request, raws >>
       ELSE LET backend == IF IsGpt(agent_model) THEN "openai" ELSE "gemini" IN
            /\ request' =
                 IF IsGpt(agent_model)
                 THEN [backend |-> "openai", call |-> "opener",
                       input |-> << [role |-> "system", content |-> AgentPrompt] >>,
                       max_tokens |-> { OpenerMaxTokens }]
                 ELSE [backend |-> "gemini", call |-> "opener",
                       input |-> AgentPrompt, max_tokens |-> { }]
            /\ IF o.kind = "text"
               THEN /\ conversation_history' =
                         Append(conversation_history, agent_turn(Strip(o.text)))
                    /\ raws' = Append(raws, Strip(o.text))
                    /\ pc' = "user"
                    /\ UNCHANGED result
               ELSE /\ Raise(ProviderException(backend, o))
                    /\ UNCHANGED << conversation_history, raws >>
    /\ UNCHANGED << gemini_model, openai_client, caller, users, idx, all_conversations,
                    response, agent_model, user_profile, turn, userCalls, agentCalls,
                    arg, ret >>

\* 2. the loop body, first half: the user responds (always through Gemini)
UserTurn(o) ==
    /\ pc = "user"
    /\ MayGenerate(o)
    /\ IF ~gemini_model
       THEN /\ Raise(NoneHasNoGenerateContent)
            /\ UNCHANGED << conversation_history, request, raws, userCalls >>
       ELSE /\ request' = [backend |-> "gemini", call |-> "user",
                           input |-> format_history_for_gemini(conversation_history),
                           max_tokens |-> { }]
            /\ userCalls' = userCalls + 1
            /\ IF o.kind = "text"
               THEN LET user_response_raw == Strip(o.text)
                        d == DetectEnd(user_response_raw)
                        history == Append(conversation_history, user_turn(d.cleanedText))
                    IN  /\ conversation_history' = history
                        /\ raws' = Append(raws, user_response_raw)
                        /\ IF d.shouldEnd
                           THEN Return(history)
                           ELSE pc' = "agent" /\ UNCHANGED result
               ELSE /\ Raise(ProviderException("gemini", o))
                    /\ UNCHANGED << conversation_history, raws >>
    /\ UNCHANGED << gemini_model, openai_client, caller, users, idx, all_conversations,
                    response, agent_model, user_profile, turn, agentCalls, arg, ret >>

\* 2. the loop body, second half: the agent responds (through the selected LLM)
AgentTurn(o) ==
    /\ pc = "agent"
    /\ MayGenerate(o)
    /\ LET backend == IF IsGpt(agent_model) THEN "openai" ELSE "gemini" IN
       /\ request' =
            IF IsGpt(agent_model)
            THEN [backend |-> "openai", call |-> "agent",
                  input |-> format_history_for_openai(AgentPrompt, conversation_history),
                  max_tokens |-> { }]
            ELSE [backend |-> "gemini", call |-> "agent",
                  input |-> format_history_for_gemini(conversation_history),
                  max_tokens |-> { }]
       /\ agentCalls' = agentCalls + 1
       /\ IF o.kind = "text"
          THEN LET agent_response_raw == Strip(o.text)
                   d == DetectEnd(agent_response_raw)
                   history == Append(conversation_history, agent_turn(d.cleanedText))
               IN  /\ conversation_history' = history
                   /\ raws' = Append(raws, agent_response_raw)
                   /\ IF d.shouldEnd \/ LoopDone(turn + 1)
                      THEN Return(history) /\ UNCHANGED turn
                      ELSE pc' = "user" /\ turn' = turn + 1 /\ UNCHANGED result
          ELSE /\ Raise(ProviderException(backend, o))
               /\ UNCHANGED << conversation_history, raws, turn >>
    /\ UNCHANGED << gemini_model, openai_client, caller, users, idx, all_conversations,
                    response, agent_model, user_profile, userCalls, arg, ret >>

\* a direct call of run_conversation_simulation(prompt, profile, model, temperature)
Call(profile, model) ==
    /\ caller = "none"
    /\ caller' = "direct"
    /\ agent_model' = model
    /\ BeginRun(profile)
    /\ UNCHANGED << gemini_model, openai_client, users, idx, all_conversations,
                    response, arg, ret >>

-----------------------------------------------------------------------------
(* The /simulate route *)

\* jsonify({"error": ...}), 500
ErrorResponse(message) == [status |-> "500", body |-> [error |-> message]]

\* jsonify(all_conversations)
OkResponse(conversations) == [status |-> "200", body |-> conversations]

\* the route up to the first provider call: the client check, the CSV, the
\* first iteration of `for user_profile in users`
Simulate(profiles, model) ==
    /\ caller = "none"
    /\ caller' = "simulate"
    /\ IF ~gemini_model \/ ~openai_client
       THEN /\ response' = ErrorResponse(<< "An LLM client is not initialized." >>)
            /\ UNCHANGED << users, idx, all_conversations, agent_model, user_profile,
                            conversation_history, pc, turn, request, raws, userCalls,
                            agentCalls, result >>
       ELSE /\ users' = profiles
            /\ agent_model' = model
            /\ all_conversations' = << >>
            /\ IF profiles = << >>
               THEN /\ response' = OkResponse(<< >>)
                    /\ UNCHANGED << idx, user_profile, conversation_history, pc, turn,
                                    request, raws, userCalls, agentCalls, result >>
               ELSE /\ idx' = 1
                    /\ BeginRun(profiles[1])
                    /\ UNCHANGED response
    /\ UNCHANGED << gemini_model, openai_client, arg, ret >>

\* all_conversations.append(conversation), then the next profile or the response
Collect ==
    /\ caller = "simulate"
    /\ pc = "returned"
    /\ LET collected == Append(all_conversations, result.value) IN
       /\ all_conversations' = collected
       /\ IF idx < Len(users)
          THEN /\ idx' = idx + 1
               /\ BeginRun(users[idx + 1])
               /\ UNCHANGED response
          ELSE /\ response' = OkResponse(collected)
               /\ pc' = "responded"
               /\ UNCHANGED << idx, user_profile, conversation_history, turn, request,
                               raws, userCalls, agentCalls, result >>
    /\ UNCHANGED << gemini_model, openai_client, caller, users, agent_model, arg, ret >>

\* the failed run skipped and the batch carried on with the next profile
HandleExceptionIsolated ==
    /\ caller = "simulate"
    /\ pc = "raised"
    /\ IF idx < Len(users)
       THEN /\ idx' = idx + 1
            /\ BeginRun(users[idx + 1])
            /\ UNCHANGED response
       ELSE /\ response' = OkResponse(all_conversations)
            /\ pc' = "responded"
            /\ UNCHANGED << idx, user_profile, conversation_history, turn, request,
                            raws, userCalls, agentCalls, result >>
    /\ UNCHANGED << gemini_model, openai_client, caller, users, all_conversations,
                    agent_model, arg, ret >>

\* except Exception as e: return jsonify({"error": f"An error occurred: {str(e)}"}), 500
HandleException ==
    /\ caller = "simulate"
    /\ pc = "raised"
    /\ response' = ErrorResponse(<< "An error occurred: ", result.exc.msg >>)
    /\ pc' = "responded"
    /\ UNCHANGED << gemini_model, openai_client, caller, users, idx, all_conversations,
                    agent_model, user_profile, conversation_history, turn, request,
                    raws, userCalls, agentCalls, result, arg, ret >>

-----------------------------------------------------------------------------
(* The function harness: a function of app.py applied to a drawn argument *)

NoArg == [fn |-> "none"]
NoRet == [fn |-> "none"]

\* the Turn a speaker's text is stored as, for a customer named user_name
TurnOf(user_name, speaker, text) ==
    Turn(IF speaker = "agent" THEN AgentRole ELSE user_name, text)

ApplyDetect ==
    /\ arg.fn = "detect"
    /\ ret = NoRet
    /\ ret' = [fn |-> "detect", value |-> DetectEnd(arg.raw)]
    /\ UNCHANGED << gemini_model, openai_client, caller, users, idx, all_conversations,
                    response, agent_model, user_profile, conversation_history, pc,
                    turn, request, raws, userCalls, agentCalls, result, arg >>

ApplyFormatGemini ==
    /\ arg.fn = "format"
    /\ ret = NoRet
    /\ ret' = [fn |-> "gemini", value |-> format_history_for_gemini(arg.history)]
    /\ UNCHANGED << gemini_model, openai_client, caller, users, idx, all_conversations,
                    response, agent_model, user_profile, conversation_history, pc,
                    turn, request, raws, userCalls, agentCalls, result, arg >>

ApplyFormatOpenai ==
    /\ arg.fn = "format"
    /\ ret = NoRet
    /\ ret' = [fn |-> "openai",
               value |-> format_history_for_openai(AgentPrompt, arg.history)]
    /\ UNCHANGED << gemini_model, openai_client, caller, users, idx, all_conversations,
                    response, agent_model, user_profile, conversation_history, pc,
                    turn, request, raws, userCalls, agentCalls, result, arg >>

-----------------------------------------------------------------------------
(* Inputs *)

\* sequences over S of length at most n
SeqUpTo(S, n) == UNION { [1 .. k -> S] : k \in 0 .. n }

\* the marker split in two, for a marker inside a marker
MarkerHead == SubSeq(Marker, 1, 7)
MarkerTail == SubSeq(Marker, 8, Len(Marker))
NestedMarker == MarkerHead \o Marker \o MarkerTail

\* generated texts of the engine: a plain line, a line ending the call, a marker
\* inside a marker, an empty generation
EngineTexts ==
    { << "a", "\n" >>, << "a", " " >> \o Marker \o << "\n" >>, NestedMarker, << >> }
EngineOutcomes == { Generated(t) : t \in EngineTexts } \cup { Unreachable, NoText }
EngineNames == { << "B" >>, AgentRole }

\* outcomes of the calls of a batch: the opener is a plain line, a later turn a
\* plain line or a line ending the call; any call may be unreachable
BatchTexts == { << "a", "\n" >>, << "a", " " >> \o Marker }
BatchOpeners == { Generated(<< "a", "\n" >>), Unreachable }
BatchOutcomes == { Generated(t) : t \in BatchTexts } \cup { Unreachable }
BatchNames == { << "B" >>, << "C" >> }

Models == { "gpt", "gemini" }

\* arguments of the detection: texts of at most MaxPieces pieces
Pieces == { << "a" >>, << " " >>, Marker, MarkerHead, MarkerTail }
DetectArgs ==
    { [fn |-> "detect", raw |-> Concat(ps)] : ps \in SeqUpTo(Pieces, MaxPieces) }

\* arguments of the formatters: transcripts of at most MaxHist turns between the
\* agent and a customer
FormatNames == { << "B" >>, AgentRole, << "B", ":", " ", "B" >> }
FormatTexts ==
    { << "a" >>, << "a", ":", " ", "a" >>, << "a", "\n", "B", ":", " ", "a" >>, << >> }
FormatArgs ==
    { [fn        |-> "format",
       user_name |-> n,
       speakers  |-> [i \in 1 .. Len(ts) |-> ts[i][1]],
       history   |-> [i \in 1 .. Len(ts) |-> TurnOf(n, ts[i][1], ts[i][2])]] :
        n \in FormatNames,
        ts \in SeqUpTo({ "agent", "customer" } \X FormatTexts, MaxHist) }

-----------------------------------------------------------------------------
(* Specifications *)

\* the module is loaded: the two clients are configured or left None
Loaded ==
    /\ gemini_model \in BOOLEAN
    /\ openai_client \in BOOLEAN
    /\ caller = "none"
    /\ users = << >>
    /\ idx = 0
    /\ all_conversations = << >>
    /\ response = NoResponse
    /\ agent_model = "gemini"
    /\ user_profile = NoProfile
    /\ conversation_history = << >>
    /\ pc = "idle"
    /\ turn = 0
    /\ request = NoRequest
    /\ raws = << >>
    /\ userCalls = 0
    /\ agentCalls = 0
    /\ result = NoResult

Init == Loaded /\ arg = NoArg /\ ret = NoRet

\* the steps of one run with the outcomes of a batch
BatchStep ==
    \/ \E o \in BatchOpeners : Opener(o)
    \/ \E o \in BatchOutcomes : UserTurn(o) \/ AgentTurn(o)

Next ==
    \/ \E profiles \in SeqUpTo([name : BatchNames], MaxUsers), model \in Models :
          Simulate(profiles, model)
    \/ BatchStep
    \/ Collect
    \/ HandleException

\* a /simulate request; the blocking calls return and the route runs on
Spec == Init /\ [][Next]_vars /\ WF_vars(BatchStep \/ Collect \/ HandleException)

\* the steps of one run with the outcomes of the engine
EngineStep == \E o \in EngineOutcomes : Opener(o) \/ UserTurn(o) \/ AgentTurn(o)

EngineNext ==
    \/ \E profile \in [name : EngineNames], model \in Models : Call(profile, model)
    \/ EngineStep

\* one direct run of the engine; every provider call returns or raises
EngineSpec == Init /\ [][EngineNext]_vars /\ WF_vars(EngineStep)

FunctionInit == Loaded /\ arg \in DetectArgs \cup FormatArgs /\ ret = NoRet

FunctionNext == ApplyDetect \/ ApplyFormatGemini \/ ApplyFormatOpenai

\* one application of a pure function to one argument
FunctionSpec == FunctionInit /\ [][FunctionNext]_vars

-----------------------------------------------------------------------------
(* Properties of the engine, checked under EngineSpec *)

NoMarkerIn(texts) == \A i \in 1 .. Len(texts) : ~Contains(texts[i], Marker)

\* C1: every run makes at most 8 customer calls and at most 8 agent continuation
\* calls, whatever the backends emit, and a run that has started eventually
\* returns (or raises, when a call fails)
C1_TerminatesWithinCeiling ==
    /\ [](userCalls <= MaxTurns /\ agentCalls <= MaxTurns /\ turn <= MaxTurns)
    /\ ((pc \in Running) ~> (pc \in { "returned", "raised" }))

\* a run in which the marker never appeared returned after 8 full cycles
C1_Witness ==
    /\ pc = "returned"
    /\ NoMarkerIn(raws)
    /\ userCalls = MaxTurns
    /\ agentCalls = MaxTurns

\* C2: no Turn stored in the transcript has a text containing [END_OF_CALL]
C2_NoSentinelStored ==
    \A i \in 1 .. Len(conversation_history) :
        ~Contains(conversation_history[i].text, Marker)

\* C3: the first Turn of a non-empty transcript, and of every returned
\* SimulationResult, has the role "Agent"
C3_FirstTurnIsAgent ==
    /\ conversation_history # << >> => conversation_history[1].role = AgentRole
    /\ result.kind = "return" =>
          /\ result.value.transcript # << >>
          /\ result.value.transcript[1].role = AgentRole

\* a run of the gpt family returned to a customer who is not named "Agent"
C3_Witness ==
    /\ pc = "returned"
    /\ agent_model = "gpt"
    /\ user_profile.name # AgentRole
    /\ Len(result.value.transcript) > 2

\* C4: when the customer's first generated text contains the marker, the run has
\* returned exactly the opener and that customer turn, with the cleaned text, and
\* no agent continuation call was made
C4_CustomerEndsAtFirstTurn ==
    (Len(raws) >= 2 /\ Contains(raws[2], Marker)) =>
        /\ agentCalls = 0
        /\ userCalls = 1
        /\ pc = "returned"
        /\ result.kind = "return"
        /\ result.value.transcript =
              << Turn(AgentRole, raws[1]),
                 Turn(user_profile.name, Strip(ReplaceMarker(raws[2]))) >>

\* the customer's first text carried the marker behind some words
C4_Witness ==
    /\ Len(raws) = 2
    /\ Contains(raws[2], Marker)
    /\ result.kind = "return"
    /\ result.value.transcript[2].text = << "a" >>

\* C5: a run that returned without any output containing the marker has 17
\* Turns: the opener, then 8 times a customer turn and an agent turn
C5_SeventeenTurnsWithoutSentinel ==
    (pc = "returned" /\ NoMarkerIn(raws)) =>
        /\ Len(result.value.transcript) = 17
        /\ userCalls = 8
        /\ agentCalls = 8
        /\ \A i \in 1 .. 17 :
              result.value.transcript[i].role =
                 IF i % 2 = 1 THEN AgentRole ELSE user_profile.name

\* a run of the gemini family returned by the ceiling alone
C5_Witness ==
    /\ pc = "returned"
    /\ NoMarkerIn(raws)
    /\ agent_model = "gemini"
    /\ Len(conversation_history) = 17

\* the agent's backend is not configured
AgentBackendMissing == IF IsGpt(agent_model) THEN ~openai_client ELSE ~gemini_model

\* the run failed at the opener call: it raised before any call returned a text
OpenerFailed == pc = "raised" /\ raws = << >>

\* C6: a run whose agent backend is unavailable at the opener call raises before
\* any Turn is appended and before any customer call: it leaves no transcript
\* and no SimulationResult
C6_OpenerFailureLeavesNothing ==
    /\ (caller = "direct" /\ AgentBackendMissing /\ pc # "opener") =>
          /\ OpenerFailed
          /\ result.exc \in { OpenAINotInitialized, GeminiNotInitialized }
    /\ OpenerFailed =>
          /\ conversation_history = << >>
          /\ userCalls = 0
          /\ agentCalls = 0
          /\ result.kind = "raise"

\* the opener call of a configured backend could not be reached
C6_WitnessUnreachable ==
    /\ OpenerFailed
    /\ ~AgentBackendMissing
    /\ result.exc.type = "APIError"
    /\ request.call = "opener"

\* the opener was refused because the agent's client is None
C6_Witness ==
    /\ OpenerFailed
    /\ AgentBackendMissing
    /\ request = NoRequest
    /\ result.exc.type = "ValueError"

-----------------------------------------------------------------------------
(* Properties of the pure functions, checked under FunctionSpec *)

FirstSeparator(line) ==
    LET at == { i \in 1 .. Len(line) : StartsWith(From(line, i), << ":", " " >>) }
    IN  IF at = { } THEN 0 ELSE CHOOSE i \in at : \A j \in at : i <= j

\* s.split("\n")
RECURSIVE SplitLines(_)
SplitLines(s) ==
    LET at == { i \in 1 .. Len(s) : s[i] = "\n" }
    IN  IF at = { } THEN << s >>
        ELSE LET i == CHOOSE k \in at : \A j \in at : k <= j
             IN  << SubSeq(s, 1, i - 1) >> \o SplitLines(From(s, i + 1))

\* the line "<role>: <text>" read back as a Turn, split at its first ": "
ParseLine(line) ==
    LET i == FirstSeparator(line)
    IN  IF i = 0 THEN [unparsed |-> line]
        ELSE Turn(SubSeq(line, 1, i - 1), From(line, i + 2))

\* the concatenated form read back: one Turn per line
ParseTranscript(s) ==
    IF s = << >> THEN << >>
    ELSE LET lines == SplitLines(s) IN [i \in 1 .. Len(lines) |-> ParseLine(lines[i])]

\* no role holds ": " or a newline and no text holds a newline
LineSafe(history) ==
    \A i \in 1 .. Len(history) :
        /\ ~Contains(history[i].role, << ":", " " >>)
        /\ ~Contains(history[i].role, << "\n" >>)
        /\ ~Contains(history[i].text, << "\n" >>)

\* a transcript as the engine builds it: the agent opens, then the customer and
\* the agent take turns
EngineShaped(a) ==
    /\ Len(a.history) >= 1
    /\ \A i \in 1 .. Len(a.history) :
          a.speakers[i] = IF i % 2 = 1 THEN "agent" ELSE "customer"

\* C8, as claimed: parsing the concatenated form of any transcript the engine can
\* produce recovers its (role, text) pairs
C8_RoundTrip ==
    (ret.fn = "gemini" /\ EngineShaped(arg)) =>
        ParseTranscript(ret.value) = arg.history

\* C8, amended: parsing the concatenated form recovers the (role, text) pairs of
\* every transcript in which no role holds ": " or a newline and no text holds a
\* newline
C8_RoundTripLineSafe ==
    (ret.fn = "gemini" /\ EngineShaped(arg) /\ LineSafe(arg.history)) =>
        ParseTranscript(ret.value) = arg.history

\* two turns were formatted, one of them with ": " inside its text
C8_Witness ==
    /\ ret.fn = "gemini"
    /\ EngineShaped(arg)
    /\ LineSafe(arg.history)
    /\ Len(arg.history) = 2
    /\ arg.history[1].role # arg.history[2].role
    /\ Contains(arg.history[2].text, << ":", " " >>)

\* one message per Turn behind the system message, contents in transcript order
MessagePerTurn ==
    /\ Len(ret.value) = Len(arg.history) + 1
    /\ ret.value[1] = [role |-> "system", content |-> AgentPrompt]
    /\ \A i \in 1 .. Len(arg.history) : ret.value[i + 1].content = arg.history[i].text

\* the message of every Turn has the role of its speaker
RoleBySpeaker ==
    \A i \in 1 .. Len(arg.history) :
        ret.value[i + 1].role =
           IF arg.speakers[i] = "agent" THEN "assistant" ELSE "user"

\* C9, as claimed: n+1 messages, the system prompt first, then the Turns in
\* order, assistant for the agent's and user for the customer's, for every name
C9_MessageArray ==
    ret.fn = "openai" => MessagePerTurn /\ RoleBySpeaker

\* C9, amended: the same for every customer display name other than "Agent"; the
\* Turns of a customer named "Agent" are given the role assistant
C9_MessageArrayByRole ==
    ret.fn = "openai" =>
        /\ MessagePerTurn
        /\ arg.user_name # AgentRole => RoleBySpeaker
        /\ arg.user_name = AgentRole =>
              \A i \in 1 .. Len(arg.history) : ret.value[i + 1].role = "assistant"

\* an agent turn and a customer turn were projected for a customer not named "Agent"
C9_Witness ==
    /\ ret.fn = "openai"
    /\ arg.user_name # AgentRole
    /\ arg.speakers = << "agent", "customer" >>
    /\ ret.value[3].role = "user"

-----------------------------------------------------------------------------
(* Properties of the /simulate route, checked under Spec *)

\* C10: the response to a batch in which a run failed is a structured error that
\* tells why and names the profile whose run failed, never a list of transcripts
C10_ErrorNamesProfile ==
    (pc = "responded" /\ result.kind = "raise") =>
        /\ response.status = "500"
        /\ DOMAIN response.body = { "error", "user_name" }
        /\ response.body.user_name = user_profile.name

\* the run at hand ended: its last customer or agent output carried the marker,
\* or the 8 iterations are done
RunEnded ==
    /\ pc = "returned"
    /\ \/ Len(raws) >= 2 /\ Contains(raws[Len(raws)], Marker)
       \/ Len(conversation_history) = 17

\* C11: in a batch of several profiles in which the run of one profile failed,
\* the response is still the list of results, holding the result of every other
\* profile
C11_FailureIsolated ==
    (pc = "responded" /\ result.kind = "raise" /\ Len(users) >= 2) =>
        /\ response.status = "200"
        /\ Len(response.body) = Len(users) - 1
        /\ \A i \in 1 .. Len(all_conversations) :
              \E j \in 1 .. Len(response.body) : response.body[j] = all_conversations[i]

\* C12: the output collection grows only by the result of a run that ended, a
\* successful response is that collection, and the response to a batch with a
\* failed run holds no transcript
C12_NoPartialTranscript ==
    /\ [](/\ response.status = "200" => response.body = all_conversations
          /\ (pc = "responded" /\ result.kind = "raise") =>
                /\ response.status = "500"
                /\ DOMAIN response.body = { "error" })
    /\ [][all_conversations' # all_conversations =>
            /\ RunEnded
            /\ all_conversations' =
                  Append(all_conversations,
                         [user_name  |-> user_profile.name,
                          transcript |-> conversation_history])]_vars

\* the second run of a batch failed after turns had been appended: the first
\* result and the partial transcript exist, the response is the error
C12_Witness ==
    /\ pc = "responded"
    /\ response.status = "500"
    /\ Len(all_conversations) = 1
    /\ Len(conversation_history) >= 2

\* C13: a successful batch answers one result per profile, in input order, the
\* i-th under the i-th profile's name, which is the role of the customer's turns
C13_OneResultPerProfile ==
    (pc = "responded" /\ response.status = "200") =>
        /\ Len(response.body) = Len(users)
        /\ \A i \in 1 .. Len(users) :
              /\ response.body[i].user_name = users[i].name
              /\ \A j \in 1 .. Len(response.body[i].transcript) :
                    j % 2 = 0 => response.body[i].transcript[j].role = users[i].name

\* two customers of different names were answered
C13_Witness ==
    /\ pc = "responded"
    /\ response.status = "200"
    /\ Len(users) = 2
    /\ users[1].name # users[2].name
    /\ Len(response.body[2].transcript) > 2

-----------------------------------------------------------------------------
(* Further properties of the engine, checked under EngineSpec *)

\* C14: a provider call that returns an empty generation fails the run: the
\* empty result is not appended as a Turn and the run does not go on
C14_EmptyResultFailsRun ==
    \A i \in 1 .. Len(raws) :
        raws[i] = << >> =>
            /\ pc = "raised"
            /\ result.kind = "raise"
            /\ Len(conversation_history) < i

\* the backend of the call the run stopped at is not configured: the agent's
\* for the opener and the agent turns, Gemini for the customer turns
FailedCallBackendMissing ==
    IF Len(raws) % 2 = 1 THEN ~gemini_model ELSE AgentBackendMissing

\* C15: a run stopped at a call whose backend is not configured has raised the
\* "not initialized" error, whatever the call and the agent model
C15_UnconfiguredIsUnavailable ==
    (pc = "raised" /\ FailedCallBackendMissing) =>
        result.exc \in { OpenAINotInitialized, GeminiNotInitialized }

\* C16: once a customer or agent turn is appended the run has ended exactly when
\* the raw output of that turn carried the marker or 8 cycles are done; a turn
\* whose raw output carried the marker is the last of the returned transcript;
\* an ended run stays ended
C16_EndsOnSentinelOrCeiling ==
    /\ [](/\ Len(raws) >= 2 =>
                (pc = "returned"
                   <=> (Contains(raws[Len(raws)], Marker) \/ Len(raws) = 17))
          /\ \A i \in 2 .. Len(raws) :
                Contains(raws[i], Marker) =>
                    /\ i = Len(raws)
                    /\ pc = "returned"
                    /\ Len(result.value.transcript) = i)
    /\ [][pc = "returned" =>
            UNCHANGED << pc, conversation_history, result, request, userCalls,
                         agentCalls >>]_vars

\* the agent ended the call at its first continuation turn
C16_Witness ==
    /\ pc = "returned"
    /\ Len(raws) = 3
    /\ Contains(raws[3], Marker)
    /\ agentCalls = 1

\* C17: the opener is stored as generated, marker or not, and the run goes on to
\* the customer's turn: a run that returned made a customer call and has at
\* least two Turns
C17_OpenerNotScanned ==
    /\ Len(raws) >= 1 => conversation_history[1] = Turn(AgentRole, raws[1])
    /\ Len(raws) = 1 => pc \in { "user", "raised" }
    /\ pc = "returned" =>
          /\ userCalls >= 1
          /\ Len(result.value.transcript) >= 2

\* a run whose opener carried the marker went on for two cycles and returned
C17_Witness ==
    /\ pc = "returned"
    /\ Contains(raws[1], Marker)
    /\ Len(result.value.transcript) >= 4

\* the roles of a transcript alternate by position, the agent first
Alternates(history) ==
    \A i \in 1 .. Len(history) :
        history[i].role = IF i % 2 = 1 THEN AgentRole ELSE user_profile.name

\* C18: in the transcript, as built and as returned, the Turns at the 1st, 3rd,
\* ... places have the role "Agent" and those at the 2nd, 4th, ... places the
\* customer's display name
C18_SpeakersAlternate ==
    /\ Alternates(conversation_history)
    /\ result.kind = "return" => Alternates(result.value.transcript)

\* the customer, not named "Agent", ended the call at the second cycle
C18_Witness ==
    /\ pc = "returned"
    /\ user_profile.name # AgentRole
    /\ Len(result.value.transcript) = 4

\* the messages behind the system message hold the texts of history, in order
MessagesHold(messages, history) ==
    /\ Len(messages) = Len(history) + 1
    /\ \A i \in 1 .. Len(history) : messages[i + 1].content = history[i].text

\* C19: a continuation call is issued with every returned call's Turn appended,
\* and its request reads back as the whole transcript at the call, in order
C19_RequestHoldsWholeTranscript ==
    [][/\ userCalls' # userCalls =>
             /\ Len(conversation_history) = Len(raws)
             /\ request'.call = "user"
             /\ ParseTranscript(request'.input) = conversation_history
       /\ agentCalls' # agentCalls =>
             /\ Len(conversation_history) = Len(raws)
             /\ request'.call = "agent"
             /\ IF IsGpt(agent_model)
                THEN MessagesHold(request'.input, conversation_history)
                ELSE ParseTranscript(request'.input) = conversation_history]_vars

\* the gpt agent's second continuation call was made on four Turns and returned
C19_Witness ==
    /\ request.call = "agent"
    /\ agent_model = "gpt"
    /\ Len(request.input) = 5
    /\ Len(conversation_history) = 5

\* provider calls issued in the run: the opener once requested, the customer
\* calls, the agent continuation calls
CallsIssued == (IF request = NoRequest THEN 0 ELSE 1) + userCalls + agentCalls

\* the run stopped at a call that was issued and failed
CallFailed ==
    /\ pc = "raised"
    /\ result.exc \notin
          { OpenAINotInitialized, GeminiNotInitialized, NoneHasNoGenerateContent }

\* C20: the calls issued are the Turns of the transcript, plus the one failed
\* call of a run that raised; after a failure nothing more is issued
C20_NoRetries ==
    /\ [](/\ CallsIssued = Len(conversation_history) + (IF CallFailed THEN 1 ELSE 0)
          /\ Len(raws) = Len(conversation_history))
    /\ [][pc = "raised" => UNCHANGED << pc, request, userCalls, agentCalls >>]_vars

\* a customer call failed in the third cycle and was not issued again
C20_Witness ==
    /\ CallFailed
    /\ userCalls = 3
    /\ agentCalls = 2
    /\ Len(conversation_history) = 5

\* C21: the opener request carries a bound on the output tokens whichever the
\* agent model is, and the request of a customer or agent continuation call
\* carries none
C21_OpenerTokenBound ==
    request # NoRequest =>
        /\ request.call = "opener" => request.max_tokens # { }
        /\ request.call \in { "user", "agent" } => request.max_tokens = { }

-----------------------------------------------------------------------------
(* A further property of the batch, checked under Spec *)

\* the run of the profile at hand failed
RunFailed == pc = "raised" \/ (pc = "responded" /\ result.kind = "raise")

\* C22: the response to a batch is the full list, one result per profile in
\* input order, or one error and nothing else; when the run of profile k failed
\* the k-1 results collected before it are not in the response, and no run is
\* started after it
C22_AllOrNothing ==
    /\ [](/\ response # NoResponse =>
                \/ /\ response.status = "200"
                   /\ ~RunFailed
                   /\ Len(response.body) = Len(users)
                   /\ \A i \in 1 .. Len(users) :
                         response.body[i].user_name = users[i].name
                \/ /\ response.status = "500"
                   /\ DOMAIN response.body = { "error" }
          /\ RunFailed =>
                /\ idx \in 1 .. Len(users)
                /\ Len(all_conversations) = idx - 1
                /\ response # NoResponse => response.status = "500")
    /\ [][/\ RunFailed =>
                /\ pc' = "responded"
                /\ response' = ErrorResponse(<< "An error occurred: ", result.exc.msg >>)
                /\ UNCHANGED << idx, user_profile, all_conversations, request,
                                userCalls, agentCalls >>
          /\ idx' # idx => idx' = idx + 1 /\ (idx = 0 \/ pc = "returned")]_vars

\* the first run of a batch of two profiles failed after its opener: the error
\* is the response and the second profile's run was never started
C22_Witness ==
    /\ pc = "responded"
    /\ response.status = "500"
    /\ Len(users) = 2
    /\ idx = 1
    /\ Len(conversation_history) >= 1
    /\ all_conversations = << >>

=============================================================================
